---- MODULE Spec2Model ----
(***************************************************************************)
(* katomik: transactional apply of a batch of manifests against a cluster. *)
(* One run of runApply (cmd/apply.go): build the plan (read + backup),     *)
(* server-side-apply every item, wait for convergence, roll back on any    *)
(* apply or wait failure.  The cluster, the status poller and the run      *)
(* deadline are the environment.                                           *)
(***************************************************************************)
EXTENDS Naturals, Integers, Sequences, FiniteSets, TLC

\* ------------------------------------------------------------------ bounds
MaxPlan == 2
MaxReconcile == 2

\* ------------------------------------------------------------ value spaces
Names == {"a", "b"}
Absent == "absent"

PreData == {[image |-> "v1", label |-> Absent, kind |-> "ConfigMap",
             namespace |-> "default"]}
DesiredData == {[image |-> "v2", label |-> "y", kind |-> "ConfigMap",
                 namespace |-> ""]}

\* a live object as the API server returns it
LiveObject(n, d, st, mf, rv, uid) ==
    [name |-> n, kind |-> d.kind, namespace |-> d.namespace,
     image |-> d.image, label |-> d.label, status |-> st,
     managedFields |-> mf, resourceVersion |-> rv, uid |-> uid,
     creationTimestamp |-> uid]

\* a decoded manifest document: no status, no server-populated metadata
Manifest(n, d) == LiveObject(n, d, Absent, Absent, 0, 0)

Manifests == {Manifest(n, d) : n \in Names, d \in DesiredData}

SeqsUpTo(S, n) == UNION {[1..k -> S] : k \in 0..n}

\* the object a decoder leaves untouched: no keys at all
EmptyObject ==
    Manifest("", [image |-> Absent, label |-> Absent, kind |-> "", namespace |-> ""])

\* one YAML/JSON document of the input: a decodable object (possibly with no
\* keys, as a bare "---" separator gives) or text the decoder rejects
Documents(ms) ==
    {[malformed |-> FALSE, obj |-> m] : m \in ms \cup {EmptyObject}}
        \cup {[malformed |-> TRUE, obj |-> EmptyObject]}

\* --namespace as cli-runtime hands it over: a pointer NewConfigFlags(true)
\* always sets, to "" when the flag is not given
NamespaceFlags == {<<"">>}

\* ------------------------------------------------------------------- state
VARIABLES
    data,         \* the documents of the manifest files, in input order
    nsFlag,       \* runOpts.configFlags.Namespace
    runNo,        \* 1 for a run, 2 for a run repeated on its converged result
    cluster,      \* live objects by name; a name outside the domain is absent
    pre,          \* the cluster as it was when the run began
    allDocs,      \* decoded manifests, input order
    plan,         \* []applyItem
    pc,           \* position of runApply
    idx,          \* index of the loop runApply / rollback is in
    deadline,     \* ctx.Err() != nil: the run's timeout context has expired
    reconciles,   \* status changes the controllers have made during the wait
    trigger,      \* the error that sent the run into rollback
    outcome,      \* how the run ended
    retErr,       \* the error value runApply returned
    out,          \* marker lines printed
    getLog,       \* result of each planning read
    mapLog,       \* per planned document: the mapper's answers and the calls made
    applyLog,     \* plan indices handed to Patch, in call order
    patched,      \* plan indices whose Patch succeeded
    rollbackLog,  \* plan indices visited by rollback, in call order
    writes,       \* Patch / Update / Delete calls issued, in call order
    resources,    \* waitStatus: identities to track
    pollerPc, pollIdx, prev,   \* the status poller
    chan,         \* eventCh
    colPc, cur, collected, collErr,  \* the collector goroutine
    cancelled,    \* cancelCtx cancelled by the observer
    cancelSnap,   \* what the observer saw when it first cancelled
    lastWatch,    \* last "[watch] waiting" line
    waitErr       \* what waitStatus returned

vars == <<data, nsFlag, runNo, cluster, pre, allDocs, plan, pc, idx, deadline, reconciles, trigger, outcome,
          retErr, out, getLog, mapLog, applyLog, patched, rollbackLog, writes, resources,
          pollerPc, pollIdx, prev, chan, colPc, cur, collected, collErr,
          cancelled, cancelSnap, lastWatch, waitErr>>

inputVars == <<data, nsFlag, runNo>>
runVars == <<trigger, outcome, retErr, out>>
planVars == <<allDocs, plan, getLog, mapLog>>
logVars == <<applyLog, patched, rollbackLog, writes>>
waitVars == <<resources, pollerPc, pollIdx, prev, chan, colPc, cur, collected,
              collErr, cancelled, cancelSnap, lastWatch, waitErr>>

\* ----------------------------------------------------------- the cluster
Exists(n) == n \in DOMAIN cluster

\* variant: a patch of an existing object restarts its rollout
PatchResultRestartsRollout(c, u) ==
    [n \in DOMAIN c \cup {u.name} |->
        IF n = u.name
        THEN LiveObject(u.name, u, "InProgress", "atomic-apply",
                        IF n \in DOMAIN c THEN c[n].resourceVersion + 1 ELSE 1, 2)
        ELSE c[n]]

\* dr.Patch with ApplyPatchType, Force: create if absent, else merge the
\* fields the manifest sets
PatchResult(c, u) ==
    IF u.name \in DOMAIN c
    THEN [n \in DOMAIN c |->
            IF n = u.name
            THEN [c[n] EXCEPT
                    !.image = IF u.image # Absent THEN u.image ELSE @,
                    !.label = IF u.label # Absent THEN u.label ELSE @,
                    !.managedFields = "atomic-apply",
                    !.resourceVersion = @ + 1]
            ELSE c[n]]
    ELSE [n \in DOMAIN c \cup {u.name} |->
            IF n = u.name
            THEN LiveObject(u.name, u, "InProgress", "atomic-apply", 1, 2)
            ELSE c[n]]

\* dr.Update: full overwrite of the live object by the payload; the server
\* keeps uid / creationTimestamp / status and advances resourceVersion
UpdateResult(c, u) ==
    [n \in DOMAIN c |->
        IF n = u.name
        THEN [c[n] EXCEPT
                !.image = u.image,
                !.label = u.label,
                !.managedFields = "atomic-apply",
                !.resourceVersion = @ + 1]
        ELSE c[n]]

\* variant: a delete takes every other object with it
DeleteResultCascades(c, n) == [m \in {} |-> c[m]]

\* dr.Delete
DeleteResult(c, n) == [m \in DOMAIN c \ {n} |-> c[m]]

\* ------------------------------------------------------------ pure helpers
\* variant: metadata.resourceVersion is left in the object
stripMetaKeepsResourceVersion(o) ==
    [o EXCEPT !.status = Absent, !.managedFields = Absent,
              !.uid = 0, !.creationTimestamp = 0]

\* stripMeta: status and the four server-populated metadata keys are
\* deleted (Absent, or 0 for the numeric ones); nothing else is touched
stripMeta(o) ==
    [o EXCEPT !.status = Absent, !.managedFields = Absent,
              !.resourceVersion = 0, !.uid = 0, !.creationTimestamp = 0]

\* the fields of an object that a backup keeps
Observable(o) == [name |-> o.name, image |-> o.image, label |-> o.label]

\* variant: the backup is taken from the manifest instead of the live object
applyItemBackupOfManifest(u, found, live) ==
    IF found
    THEN [obj |-> u, existed |-> TRUE, backup |-> <<stripMeta(u)>>,
          rv |-> live.resourceVersion]
    ELSE [obj |-> u, existed |-> FALSE, backup |-> <<>>, rv |-> 0]

\* variant: the backup is taken but the item is not marked as existing
applyItemBackupWithoutExisted(u, found, live) ==
    IF found
    THEN [obj |-> u, existed |-> FALSE, backup |-> <<stripMeta(live)>>,
          rv |-> live.resourceVersion]
    ELSE [obj |-> u, existed |-> FALSE, backup |-> <<>>, rv |-> 0]

\* it := applyItem{obj: u, dr: dr} and the existence + backup block
applyItem(u, found, live) ==
    IF found
    THEN [obj |-> u, existed |-> TRUE, backup |-> <<stripMeta(live)>>,
          rv |-> live.resourceVersion]
    ELSE [obj |-> u, existed |-> FALSE, backup |-> <<>>, rv |-> 0]

\* outcomes of dr.Get for a name: the live object, or an error (not found
\* when the object is absent, any other lookup error when it is there)
GetOutcomes(n) == IF Exists(n) THEN {"found", "error"} ELSE {"notFound"}

\* the clusters a run can start against: any subset of the names exists,
\* created earlier by another field manager
InitialClusters ==
    {[n \in S |-> LiveObject(n, d, "Current", "kubectl", 1, 1)] :
        S \in SUBSET Names, d \in PreData}

\* the state at the entry of runApply, for given clusters, documents and flags
InitOf(clusters, docs, flags) ==
    /\ data \in SeqsUpTo(docs, MaxPlan)
    /\ nsFlag \in flags
    /\ runNo = 1
    /\ cluster \in clusters
    /\ pre = cluster
    /\ allDocs = <<>>
    /\ plan = <<>>
    /\ pc = "read"
    /\ idx = 1
    /\ deadline = FALSE
    /\ reconciles = 0
    /\ trigger = "none"
    /\ outcome = "running"
    /\ retErr = "none"
    /\ out = <<>>
    /\ getLog = <<>>
    /\ mapLog = <<>>
    /\ applyLog = <<>>
    /\ patched = {}
    /\ rollbackLog = <<>>
    /\ writes = <<>>
    /\ resources = <<>>
    /\ pollerPc = "idle"
    /\ pollIdx = 1
    /\ prev = [n \in Names |-> "none"]
    /\ chan = <<>>
    /\ colPc = "idle"
    /\ cur = <<>>
    /\ collected = [n \in {} |-> "Unknown"]
    /\ collErr = FALSE
    /\ cancelled = FALSE
    /\ cancelSnap = <<>>
    /\ lastWatch = <<>>
    /\ waitErr = <<>>

\* ------------------------------------------------------------------- Init
Init == InitOf(InitialClusters, Documents(Manifests), NamespaceFlags)

\* ------------------------------------------------------------ reading
\* variant: a document with no keys is kept
readManifestsKeepsEmpty(d) ==
    LET F[k \in 0..Len(d)] ==
          IF k = 0 THEN [docs |-> <<>>, err |-> FALSE]
          ELSE IF F[k - 1].err \/ d[k].malformed
               THEN [docs |-> <<>>, err |-> TRUE]
               ELSE [docs |-> Append(F[k - 1].docs, d[k].obj), err |-> FALSE]
    IN F[Len(d)]

\* variant: a document the decoder rejects is skipped
readManifestsSkipsMalformed(d) ==
    LET F[k \in 0..Len(d)] ==
          IF k = 0 THEN [docs |-> <<>>, err |-> FALSE]
          ELSE [docs |-> IF ~d[k].malformed /\ d[k].obj # EmptyObject
                         THEN Append(F[k - 1].docs, d[k].obj)
                         ELSE F[k - 1].docs,
                err |-> FALSE]
    IN F[Len(d)]

\* readManifests: decode document after document; a decode error fails the
\* whole read, a document with no keys is dropped
readManifests(d) ==
    LET F[k \in 0..Len(d)] ==
          IF k = 0 THEN [docs |-> <<>>, err |-> FALSE]
          ELSE IF F[k - 1].err \/ d[k].malformed
               THEN [docs |-> <<>>, err |-> TRUE]
               ELSE [docs |-> IF d[k].obj # EmptyObject
                              THEN Append(F[k - 1].docs, d[k].obj)
                              ELSE F[k - 1].docs,
                     err |-> FALSE]
    IN F[Len(d)]

\* the files are decoded into allDocs; a decode error is returned
ReadDocs ==
    /\ pc = "read"
    /\ LET r == readManifests(data) IN
         IF r.err
         THEN /\ outcome' = "planError"
              /\ retErr' = "ErrDecode"
              /\ pc' = "done"
              /\ UNCHANGED allDocs
         ELSE /\ allDocs' = r.docs
              /\ pc' = "plan"
              /\ UNCHANGED <<outcome, retErr>>
    /\ UNCHANGED <<inputVars, cluster, pre, plan, getLog, mapLog, idx, deadline,
                   reconciles, trigger, out, logVars, waitVars>>

\* the clients cannot be built, or a file cannot be resolved or read: return err
ReadFail ==
    /\ pc = "read"
    /\ outcome' = "planError"
    /\ retErr' = "ErrReadFile"
    /\ pc' = "done"
    /\ UNCHANGED <<inputVars, cluster, pre, planVars, idx, deadline, reconciles,
                   trigger, out, logVars, waitVars>>

\* ------------------------------------------------------------- planning
\* m.Scope.Name() of the RESTMapping of a kind
Scope(kind) == IF kind = "Namespace" THEN "root" ELSE "namespace"

\* variant: the caller-supplied namespace overrides the manifest's
SetNamespaceFlagWins(u, flag) ==
    IF Scope(u.kind) = "namespace"
    THEN [u EXCEPT !.namespace =
            IF flag # <<>> /\ flag[1] # "" THEN flag[1]
            ELSE IF @ = "" THEN "default" ELSE @]
    ELSE u

\* the namespace block of the plan loop: a namespaced object without
\* namespace gets the flag's, or "default" when the flag is empty
SetNamespace(u, flag) ==
    IF Scope(u.kind) = "namespace" /\ u.namespace = ""
    THEN [u EXCEPT !.namespace =
            IF flag # <<>>
            THEN (IF flag[1] = "" THEN "default" ELSE flag[1])
            ELSE ""]
    ELSE u

\* kinds whose type is registered by a custom resource definition
CustomKinds == {"Widget"}

\* what the mapper answers to the first and to the second RESTMapping of a
\* kind: a kind the API server serves itself resolves the same way both
\* times, the type of a custom kind may be discovered only after a Reset
MapperAnswers(kind) ==
    IF kind \in CustomKinds
    THEN {<<TRUE, TRUE>>, <<FALSE, TRUE>>, <<FALSE, FALSE>>}
    ELSE {<<TRUE, TRUE>>, <<FALSE, FALSE>>}

\* variant: a failed lookup is not retried
ResolveKindNoRetry(answers) ==
    [answers |-> answers, calls |-> <<"RESTMapping">>, ok |-> answers[1]]

\* the RESTMapping block of the plan loop: look up, and on an error reset
\* the mapper and look up once more
ResolveKind(answers) ==
    IF answers[1]
    THEN [answers |-> answers, calls |-> <<"RESTMapping">>, ok |-> TRUE]
    ELSE [answers |-> answers, calls |-> <<"RESTMapping", "Reset", "RESTMapping">>,
          ok |-> answers[2]]

\* variant: the new item goes to the front of the plan
AppendItemFront(p, it) == <<it>> \o p

\* plan = append(plan, it)
AppendItem(p, it) == Append(p, it)

\* variant: the patch is made under a context that never expires
PatchCallUnderTodo(it) ==
    [verb |-> "patch", name |-> it.obj.name, body |-> it.obj, ctx |-> "todo"]

\* the call the apply loop issues for a plan item: a server-side apply of
\* the manifest under the run's timeout context
PatchCall(it) ==
    [verb |-> "patch", name |-> it.obj.name, body |-> it.obj, ctx |-> "run"]

\* variant: each document is patched as soon as it is planned
PlanStepAppliesAtOnce ==
    /\ pc = "plan" /\ idx <= Len(allDocs)
    /\ \E ans \in MapperAnswers(allDocs[idx].kind) :
         /\ ResolveKind(ans).ok
         /\ mapLog' = Append(mapLog, ResolveKind(ans))
    /\ LET u == SetNamespace(allDocs[idx], nsFlag) IN
         /\ allDocs' = [allDocs EXCEPT ![idx] = u]
         /\ \E g \in GetOutcomes(u.name) :
              /\ plan' = AppendItem(plan, applyItem(u, g = "found",
                                    IF g = "found" THEN cluster[u.name] ELSE u))
              /\ getLog' = Append(getLog, g)
         /\ cluster' = PatchResult(cluster, u)
         /\ writes' = Append(writes, PatchCall([obj |-> u]))
    /\ idx' = idx + 1
    /\ UNCHANGED <<inputVars, pre, pc, deadline, reconciles, runVars, applyLog,
                   patched, rollbackLog, waitVars>>

\* one iteration of the "make plan" loop: RESTMapping resolved, dr.Get,
\* backup of the live object when the read succeeded
PlanStep ==
    /\ pc = "plan" /\ idx <= Len(allDocs)
    /\ \E ans \in MapperAnswers(allDocs[idx].kind) :
         /\ ResolveKind(ans).ok
         /\ mapLog' = Append(mapLog, ResolveKind(ans))
    /\ LET u == SetNamespace(allDocs[idx], nsFlag) IN
         /\ allDocs' = [allDocs EXCEPT ![idx] = u]
         /\ \E g \in GetOutcomes(u.name) :
              /\ plan' = AppendItem(plan, applyItem(u, g = "found",
                                    IF g = "found" THEN cluster[u.name] ELSE u))
              /\ getLog' = Append(getLog, g)
    /\ idx' = idx + 1
    /\ UNCHANGED <<inputVars, cluster, pre, pc, deadline, reconciles, runVars, logVars, waitVars>>

\* RESTMapping failed, mapper.Reset(), failed again: log.Fatalf
PlanFatal ==
    /\ pc = "plan" /\ idx <= Len(allDocs)
    /\ \E ans \in MapperAnswers(allDocs[idx].kind) :
         /\ ~ResolveKind(ans).ok
         /\ mapLog' = Append(mapLog, ResolveKind(ans))
    /\ outcome' = "fatal"
    /\ pc' = "done"
    /\ UNCHANGED <<inputVars, cluster, pre, allDocs, plan, getLog, idx, deadline,
                   reconciles, trigger, retErr, out, logVars, waitVars>>

\* variant: a failed backup serialization starts rollback
PlanMarshalFailRollsBack ==
    /\ pc = "plan" /\ idx <= Len(allDocs)
    /\ Exists(allDocs[idx].name)
    /\ trigger' = "ErrBackupMarshal"
    /\ out' = Append(out, "rollback ...")
    /\ pc' = "rollback"
    /\ idx' = 1
    /\ UNCHANGED <<inputVars, cluster, pre, planVars, deadline, reconciles, outcome,
                   retErr, logVars, waitVars>>

\* variant: a failed backup serialization is returned as nil
PlanMarshalFailReturnsNil ==
    /\ pc = "plan" /\ idx <= Len(allDocs)
    /\ Exists(allDocs[idx].name)
    /\ outcome' = "planError"
    /\ retErr' = "nil"
    /\ pc' = "done"
    /\ UNCHANGED <<inputVars, cluster, pre, planVars, idx, deadline, reconciles,
                   trigger, out, logVars, waitVars>>

\* json.Marshal(cur.Object) failed: return err
PlanMarshalFail ==
    /\ pc = "plan" /\ idx <= Len(allDocs)
    /\ Exists(allDocs[idx].name)
    /\ \E ans \in MapperAnswers(allDocs[idx].kind) :
         /\ ResolveKind(ans).ok
         /\ mapLog' = Append(mapLog, ResolveKind(ans))
    /\ outcome' = "planError"
    /\ retErr' = "ErrBackupMarshal"
    /\ pc' = "done"
    /\ UNCHANGED <<inputVars, cluster, pre, allDocs, plan, getLog, idx, deadline,
                   reconciles, trigger, out, logVars, waitVars>>

\* the plan loop is over, the apply loop begins
PlanDone ==
    /\ pc = "plan" /\ idx > Len(allDocs)
    /\ pc' = "apply"
    /\ idx' = 1
    /\ UNCHANGED <<inputVars, cluster, pre, planVars, deadline, reconciles, runVars, logVars, waitVars>>

\* ---------------------------------------------------------------- rollback
\* variant: the error is returned at once, rollback is not called
EnterRollbackSkipped(err) ==
    /\ trigger' = err
    /\ retErr' = err
    /\ outcome' = "error"
    /\ pc' = "done"
    /\ UNCHANGED <<out, idx>>

\* variant: rollback starts without printing its marker
EnterRollbackSilent(err) ==
    /\ trigger' = err
    /\ pc' = "rollback"
    /\ idx' = 1
    /\ UNCHANGED <<out, outcome, retErr>>

\* variant: rollback is announced but the run stays where it was
EnterRollbackKeepsRunning(err) ==
    /\ trigger' = err
    /\ out' = Append(out, "rollback ...")
    /\ UNCHANGED <<pc, idx, outcome, retErr>>

\* return rollback(plan): the call prints its first marker
EnterRollback(err) ==
    /\ trigger' = err
    /\ out' = Append(out, "rollback ...")
    /\ pc' = "rollback"
    /\ idx' = 1
    /\ UNCHANGED <<outcome, retErr>>

\* variant: rollback walks the plan backwards
RollbackIndexReversed(k, n) == n - k + 1

\* the plan index rollback visits in its k-th iteration (for _, it := range plan)
RollbackIndex(k, n) == k

\* variant: the backup is sent with the resourceVersion read at planning
RollbackPayloadWithVersion(it) ==
    [it.backup[1] EXCEPT !.resourceVersion = it.rv]

\* the object rollback writes back for an item that existed
RollbackPayload(it) == it.backup[1]

\* the server's precondition on a write: a body that carries a
\* resourceVersion is accepted only while the live object still has that
\* version; a body without one is accepted unconditionally
VersionMatches(call) ==
    \/ call.body.resourceVersion = 0
    \/ /\ Exists(call.name)
       /\ cluster[call.name].resourceVersion = call.body.resourceVersion

\* a call made under the run's timeout context fails once that context has
\* expired; context.TODO() never expires
ContextDone(c) == c = "run" /\ deadline

\* variant: an item that existed is overwritten with its manifest
RollbackCallOfManifest(it) ==
    IF it.existed
    THEN [verb |-> "update", name |-> it.obj.name, body |-> it.obj, ctx |-> "todo"]
    ELSE [verb |-> "delete", name |-> it.obj.name, body |-> EmptyObject,
          ctx |-> "todo"]

\* variant: rollback's calls are made under the run's timeout context
RollbackCallUnderRunContext(it) ==
    IF it.existed
    THEN [verb |-> "update", name |-> RollbackPayload(it).name,
          body |-> RollbackPayload(it), ctx |-> "run"]
    ELSE [verb |-> "delete", name |-> it.obj.name, body |-> EmptyObject,
          ctx |-> "run"]

\* the call rollback issues for a plan item: Update with the deserialized
\* backup when the item existed, Delete by the manifest's name otherwise,
\* both under context.TODO()
RollbackCall(it) ==
    IF it.existed
    THEN [verb |-> "update", name |-> RollbackPayload(it).name,
          body |-> RollbackPayload(it), ctx |-> "todo"]
    ELSE [verb |-> "delete", name |-> it.obj.name, body |-> EmptyObject,
          ctx |-> "todo"]

\* variant: a rejected rollback call is issued again
RollbackStepRetries ==
    /\ pc = "rollback" /\ idx <= Len(plan)
    /\ LET j == RollbackIndex(idx, Len(plan))
           it == plan[j]
           n == RollbackCall(it).name
       IN
       /\ rollbackLog' = Append(rollbackLog, j)
       /\ writes' = Append(writes, RollbackCall(it))
       /\ \E ok \in IF /\ Exists(n) /\ ~ContextDone(RollbackCall(it).ctx)
                        /\ VersionMatches(RollbackCall(it))
                     THEN {TRUE, FALSE} ELSE {FALSE} :
            IF ok
            THEN /\ cluster' = IF RollbackCall(it).verb = "update"
                               THEN UpdateResult(cluster, RollbackCall(it).body)
                               ELSE DeleteResult(cluster, RollbackCall(it).name)
                 /\ idx' = idx + 1
            ELSE UNCHANGED <<cluster, idx>>
    /\ UNCHANGED <<inputVars, pre, planVars, pc, deadline, reconciles, runVars,
                   applyLog, patched, waitVars>>

\* variant: rollback notes the error of a rejected call and goes on
RollbackStepContinues ==
    /\ pc = "rollback" /\ idx <= Len(plan)
    /\ LET j == RollbackIndex(idx, Len(plan))
           it == plan[j]
           n == RollbackCall(it).name
       IN
       /\ rollbackLog' = Append(rollbackLog, j)
       /\ writes' = Append(writes, RollbackCall(it))
       /\ \E ok \in IF /\ Exists(n) /\ ~ContextDone(RollbackCall(it).ctx)
                        /\ VersionMatches(RollbackCall(it))
                     THEN {TRUE, FALSE} ELSE {FALSE} :
            IF ok
            THEN /\ cluster' = IF RollbackCall(it).verb = "update"
                               THEN UpdateResult(cluster, RollbackCall(it).body)
                               ELSE DeleteResult(cluster, RollbackCall(it).name)
                 /\ UNCHANGED <<outcome, retErr>>
            ELSE /\ outcome' = "rollbackError"
                 /\ retErr' = IF RollbackCall(it).verb = "update"
                              THEN "ErrUpdate" ELSE "ErrDelete"
                 /\ UNCHANGED cluster
    /\ idx' = idx + 1
    /\ UNCHANGED <<inputVars, pre, planVars, pc, deadline, reconciles, trigger, out,
                   applyLog, patched, waitVars>>

\* one iteration of the rollback loop
RollbackStep ==
    /\ pc = "rollback" /\ idx <= Len(plan)
    /\ LET j == RollbackIndex(idx, Len(plan))
           it == plan[j]
           n == RollbackCall(it).name
       IN
       /\ rollbackLog' = Append(rollbackLog, j)
       /\ writes' = Append(writes, RollbackCall(it))
       /\ \E ok \in IF /\ Exists(n) /\ ~ContextDone(RollbackCall(it).ctx)
                        /\ VersionMatches(RollbackCall(it))
                     THEN {TRUE, FALSE} ELSE {FALSE} :
            IF ok
            THEN /\ cluster' = IF RollbackCall(it).verb = "update"
                               THEN UpdateResult(cluster, RollbackCall(it).body)
                               ELSE DeleteResult(cluster, RollbackCall(it).name)
                 /\ idx' = idx + 1
                 /\ UNCHANGED <<pc, outcome, retErr>>
            ELSE /\ outcome' = "rollbackError"
                 /\ retErr' = IF RollbackCall(it).verb = "update"
                              THEN "ErrUpdate" ELSE "ErrDelete"
                 /\ pc' = "done"
                 /\ UNCHANGED <<cluster, idx>>
    /\ UNCHANGED <<inputVars, pre, planVars, deadline, reconciles, trigger, out, applyLog, patched, waitVars>>

\* variant: rollback falls through to its return nil
RollbackDoneReturnsNil ==
    /\ pc = "rollback" /\ idx > Len(plan)
    /\ out' = Append(out, "rollback complete")
    /\ outcome' = "success"
    /\ retErr' = "nil"
    /\ pc' = "done"
    /\ UNCHANGED <<inputVars, cluster, pre, planVars, idx, deadline, reconciles, trigger,
                   logVars, waitVars>>

\* every item was rolled back: "rollback complete", os.Exit(1)
RollbackDone ==
    /\ pc = "rollback" /\ idx > Len(plan)
    /\ out' = Append(out, "rollback complete")
    /\ outcome' = "rolledBack"
    /\ pc' = "done"
    /\ UNCHANGED <<inputVars, cluster, pre, planVars, idx, deadline, reconciles, trigger, retErr,
                   logVars, waitVars>>

\* ------------------------------------------------------------------- apply
\* json.Marshal(it.obj) failed
ApplyMarshalFail ==
    /\ pc = "apply" /\ idx <= Len(plan)
    /\ EnterRollback("ErrMarshal")
    /\ UNCHANGED <<inputVars, cluster, pre, planVars, deadline, reconciles, logVars, waitVars>>

\* it.dr.Patch(ctx, ...): under the run's context, so it cannot succeed once
\* the deadline has expired
ApplyPatch ==
    /\ pc = "apply" /\ idx <= Len(plan)
    /\ applyLog' = Append(applyLog, idx)
    /\ writes' = Append(writes, PatchCall(plan[idx]))
    /\ \E ok \in IF ContextDone(PatchCall(plan[idx]).ctx)
                  THEN {FALSE} ELSE {TRUE, FALSE} :
         IF ok
         THEN /\ cluster' = PatchResult(cluster, plan[idx].obj)
              /\ patched' = patched \cup {idx}
              /\ idx' = idx + 1
              /\ UNCHANGED <<pc, runVars>>
         ELSE /\ EnterRollback("ErrPatch")
              /\ UNCHANGED <<cluster, patched>>
    /\ UNCHANGED <<inputVars, pre, planVars, deadline, reconciles, rollbackLog, waitVars>>

\* context.WithTimeout(cmd.Context(), aa.timeout) fires
DeadlineExpires ==
    /\ pc \in {"read", "plan", "apply", "wait", "rollback"} /\ ~deadline
    /\ deadline' = TRUE
    /\ UNCHANGED <<inputVars, cluster, pre, planVars, pc, idx, reconciles, runVars, logVars, waitVars>>

\* ------------------------------------------------------------- wait stage
Range(f) == {f[k] : k \in DOMAIN f}

\* kstatus of a tracked identity as a status read computes it
StatusOf(n) == IF Exists(n) THEN cluster[n].status ELSE "NotFound"

\* the plan index whose identity is the k-th wait target (for _, it := range plan)
WaitIndex(k, n) == k

\* aggregator.AggregateStatus over the statuses the observer kept
AggregateStatus(rss, desired) ==
    IF rss = {} THEN desired
    ELSE IF "Failed" \in rss THEN "Failed"
    ELSE IF "Unknown" \in rss THEN "Unknown"
    ELSE IF rss = {desired} THEN desired
    ELSE "InProgress"

\* statusObserver: the statuses it aggregates (rss)
ObservedStatuses(col, desired) ==
    {col[n] : n \in {m \in DOMAIN col : ~(col[m] = "Unknown" /\ desired = "NotFound")}}

\* variant: cancel as soon as any resource is at the desired status
ObserverCancelsOnAny(col, desired) == desired \in ObservedStatuses(col, desired)

\* variant: never cancel
ObserverCancelsNever(col, desired) == FALSE

\* variant: also cancel when the aggregate is Failed
ObserverCancelsOnFailed(col, desired) ==
    AggregateStatus(ObservedStatuses(col, desired), desired) \in {desired, "Failed"}

\* statusObserver: does this notification cancel the child context
ObserverCancels(col, desired) ==
    AggregateStatus(ObservedStatuses(col, desired), desired) = desired

\* lexicographic order of the names
NameRank(n) == IF n = "a" THEN 1 ELSE 2

\* statusObserver: the resources it collects in nonReady
NonReady(col, desired) ==
    {n \in DOMAIN col : ~(col[n] = "Unknown" /\ desired = "NotFound") /\ col[n] # desired}

\* variant: the last of the sorted non-ready resources is printed
RepresentativeLast(col, desired) ==
    LET last == CHOOSE n \in NonReady(col, desired) :
                    \A m \in NonReady(col, desired) : NameRank(n) >= NameRank(m)
    IN [name |-> last, status |-> col[last]]

\* statusObserver: the non-ready resource it prints (nonReady[0] after the sort)
Representative(col, desired) ==
    LET first == CHOOSE n \in NonReady(col, desired) :
                    \A m \in NonReady(col, desired) : NameRank(n) <= NameRank(m)
    IN [name |-> first, status |-> col[first]]

\* variant: a fact for every entry, Current or not
NotReadyFactsUnfiltered(res, col) ==
    [k \in 1..Len(res) |-> [id |-> res[k], status |-> col[res[k]]]]

\* waitStatus step 5: one "resource not ready" fact per entry of resources
\* whose recorded status is not Current
NotReadyFacts(res, col) ==
    LET F[k \in 0..Len(res)] ==
          IF k = 0 THEN <<>>
          ELSE IF col[res[k]] # "Current"
               THEN Append(F[k - 1], [id |-> res[k], status |-> col[res[k]]])
               ELSE F[k - 1]
    IN F[Len(res)]

\* what waitStatus returns once the collector is done
WaitResult(err, ctxErr, res, col) ==
    IF err THEN <<[kind |-> "collector", facts |-> <<>>]>>
    ELSE IF ctxErr THEN <<[kind |-> "deadline", facts |-> NotReadyFacts(res, col)]>>
    ELSE <<>>

\* the apply loop is over: waitStatus builds its target list, returns at
\* once for an empty list, else starts the poller and the collector
WaitStart ==
    /\ pc = "apply" /\ idx > Len(plan)
    /\ resources' = [k \in 1..Len(plan) |-> plan[WaitIndex(k, Len(plan))].obj.name]
    /\ IF Len(plan) = 0
       THEN /\ out' = out \o <<"no trackable resources", "success">>
            /\ outcome' = "success"
            /\ retErr' = "nil"
            /\ pc' = "done"
            /\ UNCHANGED <<pollerPc, colPc, collected>>
       ELSE /\ pc' = "wait"
            /\ pollerPc' = "run"
            /\ colPc' = "recv"
            /\ collected' = [n \in Range(resources') |-> "Unknown"]
            /\ UNCHANGED <<out, outcome, retErr>>
    /\ UNCHANGED <<inputVars, cluster, pre, planVars, idx, deadline, reconciles, trigger, logVars,
                   pollIdx, prev, chan, cur, collErr, cancelled, cancelSnap,
                   lastWatch, waitErr>>

\* variant: the poller's context is not derived from the run's context
ChildContextDoneOnCancelOnly == cancelled

\* variant: the poller's context is never done
ChildContextNeverDone == FALSE

\* cancelCtx, derived from the run's timeout context: done when the observer
\* has cancelled it or when the deadline has expired
ChildContextDone == cancelled \/ deadline

\* variant: waitStatus does not wait for the collector
DoneSignalledEarly == TRUE

\* <-done: the collector goroutine has finished
DoneSignalled == colPc = "done"

\* controllers reconcile a resource out of band
Reconcile ==
    /\ pc = "wait" /\ pollerPc = "run"
    /\ reconciles < MaxReconcile
    /\ \E n \in Range(resources), s \in {"InProgress", "Current", "Failed"} :
         /\ Exists(n)
         /\ cluster[n].status # s
         /\ cluster' = [cluster EXCEPT ![n].status = s]
    /\ reconciles' = reconciles + 1
    /\ UNCHANGED <<inputVars, pre, planVars, pc, idx, deadline, runVars, logVars, waitVars>>

\* the poll loop: stop when the child context is done, else read the status
\* of the next identity and emit an event when it changed
PollStep ==
    /\ pc = "wait" /\ pollerPc = "run"
    /\ IF ChildContextDone
       THEN /\ pollerPc' = "closed"
            /\ pollIdx' = 1
            /\ prev' = [m \in Names |-> "none"]
            /\ UNCHANGED chan
       ELSE LET n == resources[pollIdx]
                st == StatusOf(n)
            IN /\ pollIdx' = IF pollIdx = Len(resources) THEN 1 ELSE pollIdx + 1
               /\ IF st # prev[n]
                  THEN /\ chan = <<>>
                       /\ chan' = <<[type |-> "ResourceUpdateEvent", id |-> n, status |-> st]>>
                       /\ prev' = [prev EXCEPT ![n] = st]
                  ELSE UNCHANGED <<prev, chan>>
               /\ UNCHANGED pollerPc
    /\ UNCHANGED <<inputVars, cluster, pre, planVars, pc, idx, deadline, reconciles, runVars, logVars,
                   resources, colPc, cur, collected, collErr, cancelled,
                   cancelSnap, lastWatch, waitErr>>

\* the poll loop fails to sync or read: it emits an ErrorEvent and stops
PollError ==
    /\ pc = "wait" /\ pollerPc = "run"
    /\ ~ChildContextDone
    /\ chan = <<>>
    /\ chan' = <<[type |-> "ErrorEvent", id |-> "", status |-> ""]>>
    /\ pollerPc' = "closed"
    /\ pollIdx' = 1
    /\ prev' = [m \in Names |-> "none"]
    /\ UNCHANGED <<inputVars, cluster, pre, planVars, pc, idx, deadline, reconciles, runVars, logVars,
                   resources, colPc, cur, collected, collErr,
                   cancelled, cancelSnap, lastWatch, waitErr>>

\* the collector goroutine receives the next event
ColRecv ==
    /\ pc = "wait" /\ colPc = "recv"
    /\ chan # <<>>
    /\ cur' = chan
    /\ chan' = <<>>
    /\ colPc' = "proc"
    /\ UNCHANGED <<inputVars, cluster, pre, planVars, pc, idx, deadline, reconciles, runVars, logVars,
                   resources, pollerPc, pollIdx, prev, collected, collErr,
                   cancelled, cancelSnap, lastWatch, waitErr>>

\* the collector records the event and notifies statusObserver
ColProcess ==
    /\ pc = "wait" /\ colPc = "proc"
    /\ cur' = <<>>
    /\ LET e == cur[1] IN
       IF e.type = "ErrorEvent"
       THEN /\ collErr' = TRUE
            /\ colPc' = "done"
            /\ UNCHANGED <<collected, cancelled, cancelSnap, lastWatch>>
       ELSE /\ collected' = [collected EXCEPT ![e.id] = e.status]
            /\ colPc' = "recv"
            /\ IF ObserverCancels(collected', "Current")
               THEN /\ cancelled' = TRUE
                    /\ cancelSnap' = IF cancelled THEN cancelSnap
                                     ELSE <<[statuses |-> collected',
                                             ctxErr |-> deadline]>>
                    /\ UNCHANGED lastWatch
               ELSE /\ lastWatch' = IF NonReady(collected', "Current") # {}
                                    THEN <<Representative(collected', "Current")>>
                                    ELSE lastWatch
                    /\ UNCHANGED <<cancelled, cancelSnap>>
            /\ UNCHANGED collErr
    /\ UNCHANGED <<inputVars, cluster, pre, planVars, pc, idx, deadline, reconciles, runVars, logVars,
                   resources, pollerPc, pollIdx, prev, chan, waitErr>>

\* eventCh is closed and drained: the collector closes done
ColClose ==
    /\ pc = "wait" /\ colPc = "recv"
    /\ chan = <<>> /\ pollerPc = "closed"
    /\ colPc' = "done"
    /\ UNCHANGED <<inputVars, cluster, pre, planVars, pc, idx, deadline, reconciles, runVars, logVars,
                   resources, pollerPc, pollIdx, prev, chan, cur, collected,
                   collErr, cancelled, cancelSnap, lastWatch, waitErr>>

\* <-done returned: waitStatus returns and runApply prints success or
\* enters rollback
WaitReturn ==
    /\ pc = "wait" /\ DoneSignalled
    /\ waitErr' = WaitResult(collErr, deadline, resources, collected)
    /\ IF waitErr' = <<>>
       THEN /\ out' = Append(out, "success")
            /\ outcome' = "success"
            /\ retErr' = "nil"
            /\ pc' = "done"
            /\ UNCHANGED <<trigger, idx>>
       ELSE EnterRollback("ErrWait")
    /\ UNCHANGED <<inputVars, cluster, pre, planVars, deadline, reconciles, logVars, resources,
                   pollerPc, pollIdx, prev, chan, colPc, cur, collected,
                   collErr, cancelled, cancelSnap, lastWatch>>

\* ------------------------------------------------------------ a second run
\* the operator runs the command again on the same files, after a run that
\* succeeded and left every tracked resource Current
Rerun ==
    /\ runNo = 1 /\ pc = "done" /\ outcome = "success"
    /\ \A n \in Range(resources) : StatusOf(n) = "Current"
    /\ runNo' = 2
    /\ pre' = cluster
    /\ allDocs' = <<>>
    /\ plan' = <<>>
    /\ pc' = "read"
    /\ idx' = 1
    /\ deadline' = FALSE
    /\ reconciles' = 0
    /\ trigger' = "none"
    /\ outcome' = "running"
    /\ retErr' = "none"
    /\ out' = <<>>
    /\ getLog' = <<>>
    /\ mapLog' = <<>>
    /\ applyLog' = <<>>
    /\ patched' = {}
    /\ rollbackLog' = <<>>
    /\ writes' = <<>>
    /\ resources' = <<>>
    /\ pollerPc' = "idle"
    /\ pollIdx' = 1
    /\ prev' = [n \in Names |-> "none"]
    /\ chan' = <<>>
    /\ colPc' = "idle"
    /\ cur' = <<>>
    /\ collected' = [n \in {} |-> "Unknown"]
    /\ collErr' = FALSE
    /\ cancelled' = FALSE
    /\ cancelSnap' = <<>>
    /\ lastWatch' = <<>>
    /\ waitErr' = <<>>
    /\ UNCHANGED <<data, nsFlag, cluster>>

\* the exit status of the process for an outcome: main exits 1 on a
\* returned error, rollback and log.Fatalf exit 1 themselves
ExitCode(o) == IF o = "success" THEN 0 ELSE 1

\* ------------------------------------------------------------------- Next
Next ==
    \/ ReadDocs
    \/ ReadFail
    \/ PlanStep
    \/ PlanFatal
    \/ PlanMarshalFail
    \/ PlanDone
    \/ ApplyMarshalFail
    \/ ApplyPatch
    \/ WaitStart
    \/ Reconcile
    \/ PollStep
    \/ PollError
    \/ ColRecv
    \/ ColProcess
    \/ ColClose
    \/ WaitReturn
    \/ RollbackStep
    \/ RollbackDone
    \/ DeadlineExpires

Spec == Init /\ [][Next]_vars

\* goroutines are scheduled fairly and calls return; the deadline and the
\* controllers are under no obligation
SpecLive ==
    /\ Spec
    /\ WF_vars(PollStep)
    /\ WF_vars(ColRecv)
    /\ WF_vars(ColProcess)
    /\ WF_vars(ColClose)
    /\ WF_vars(WaitReturn)

\* the steps of the goroutine that runs runApply, other than its wait on done
RunStep ==
    \/ ReadDocs
    \/ ReadFail
    \/ PlanStep
    \/ PlanFatal
    \/ PlanMarshalFail
    \/ PlanDone
    \/ ApplyMarshalFail
    \/ ApplyPatch
    \/ WaitStart
    \/ RollbackStep
    \/ RollbackDone

\* every call returns, the goroutines are scheduled, and the timeout of the
\* run's context elapses
SpecTerm ==
    /\ SpecLive
    /\ WF_vars(RunStep)
    /\ WF_vars(DeadlineExpires)

\* a run, and possibly a second run of the same files on its converged
\* result, under the same scheduling
NextTwice ==
    \/ Next
    \/ Rerun

SpecTwice ==
    /\ Init /\ [][NextTwice]_vars
    /\ WF_vars(PollStep)
    /\ WF_vars(ColRecv)
    /\ WF_vars(ColProcess)
    /\ WF_vars(ColClose)
    /\ WF_vars(WaitReturn)

\* --------------------------------------------- namespace resolution alone
NsDesiredData ==
    {[image |-> "v2", label |-> "y", kind |-> k, namespace |-> ns] :
        k \in {"ConfigMap", "Namespace"}, ns \in {"", "team-a"}}

NsManifests == {Manifest(n, d) : n \in Names, d \in NsDesiredData}

NsNamespaceFlags == {<<"">>, <<"team-b">>}

\* a cluster with none of the named objects
FreshClusters == {c \in InitialClusters : DOMAIN c = {}}

\* reading and planning, for manifests of both scopes with and without a
\* namespace, and with and without --namespace
InitNs == InitOf(FreshClusters, Documents(NsManifests), NsNamespaceFlags)

NextNs ==
    \/ ReadDocs
    \/ PlanStep
    \/ PlanDone

SpecNs == InitNs /\ [][NextNs]_vars

\* ------------------------------------------------------- planning alone
PlanDesiredData ==
    {[image |-> "v2", label |-> "y", kind |-> k, namespace |-> ""] :
        k \in {"ConfigMap"} \cup CustomKinds}

PlanManifests == {Manifest(n, d) : n \in Names, d \in PlanDesiredData}

\* reading and planning, for manifests of built-in and of custom kinds
InitPlan == InitOf(InitialClusters, Documents(PlanManifests), NamespaceFlags)

NextPlan ==
    \/ ReadDocs
    \/ PlanStep
    \/ PlanFatal
    \/ PlanMarshalFail
    \/ PlanDone

SpecPlan == InitPlan /\ [][NextPlan]_vars

\* ------------------------------------------------- the observer alone
\* identities as the collector keys them: two kinds, so that two tracked
\* resources can have the same name
ObsIds == [kind : {"ConfigMap", "Secret"}, name : Names]

ObsStatuses == {"Unknown", "InProgress", "Current", "Failed"}

\* nonReady[0] after sort.Slice by Identifier.Name: nonReady is filled in the
\* iteration order of the map c.ResourceStatuses, which differs from call to
\* call, and the sort compares names only, so the first element is any of
\* the entries with the smallest name
SortedFirst(col, desired) ==
    {n \in NonReady(col, desired) :
        \A m \in NonReady(col, desired) : NameRank(n.name) <= NameRank(m.name)}

\* the collector holds some recorded statuses and is about to notify
InitObs ==
    /\ data = <<>>
    /\ nsFlag \in NamespaceFlags
    /\ runNo = 1
    /\ cluster \in FreshClusters
    /\ pre = cluster
    /\ allDocs = <<>>
    /\ plan = <<>>
    /\ pc = "observe"
    /\ idx = 1
    /\ deadline = FALSE
    /\ reconciles = 0
    /\ trigger = "none"
    /\ outcome = "running"
    /\ retErr = "none"
    /\ out = <<>>
    /\ getLog = <<>>
    /\ mapLog = <<>>
    /\ applyLog = <<>>
    /\ patched = {}
    /\ rollbackLog = <<>>
    /\ writes = <<>>
    /\ resources = <<>>
    /\ pollerPc = "run"
    /\ pollIdx = 1
    /\ prev = [n \in Names |-> "none"]
    /\ chan = <<>>
    /\ colPc = "proc"
    /\ cur = <<>>
    /\ collected \in [ObsIds -> ObsStatuses]
    /\ collErr = FALSE
    /\ cancelled = FALSE
    /\ cancelSnap = <<>>
    /\ lastWatch = <<>>
    /\ waitErr = <<>>

\* one call of the function statusObserver returns, on the recorded statuses
ObserverCall ==
    /\ pc = "observe"
    /\ IF ObserverCancels(collected, "Current")
       THEN /\ cancelled' = TRUE
            /\ UNCHANGED lastWatch
       ELSE /\ IF NonReady(collected, "Current") # {}
               THEN \E first \in SortedFirst(collected, "Current") :
                      lastWatch' = <<[kind |-> first.kind, name |-> first.name,
                                      status |-> collected[first]]>>
               ELSE UNCHANGED lastWatch
            /\ UNCHANGED cancelled
    /\ UNCHANGED <<inputVars, cluster, pre, planVars, pc, idx, deadline, reconciles,
                   runVars, logVars, resources, pollerPc, pollIdx, prev, chan,
                   colPc, cur, collected, collErr, cancelSnap, waitErr>>

NextObs == ObserverCall

SpecObs == InitObs /\ [][NextObs]_vars

\* ------------------------------------------------------------- properties
\* every object of the cluster is as it was before the run, in the fields a
\* backup keeps, and nothing was added or removed
Restored ==
    /\ DOMAIN cluster = DOMAIN pre
    /\ \A n \in DOMAIN pre : Observable(cluster[n]) = Observable(pre[n])

\* C1: all-or-nothing. A run that has terminated either reports success or
\* has left the cluster as it was before the run. Stated here for the runs
\* in which no rollback call was rejected, which the claim covers a fortiori.
C1_AllOrNothing ==
    (pc = "done" /\ outcome # "rollbackError") => (outcome = "success" \/ Restored)

\* C2: all-or-nothing after an apply failure. When a patch has failed and
\* rollback has run to completion, every pre-existing resource is as it was
\* before the run and every resource absent before the run is absent,
\* whatever the planning reads returned.
C2_ApplyFailureRestores ==
    (pc = "done" /\ trigger = "ErrPatch" /\ outcome = "rolledBack") => Restored

\* C3: all-or-nothing after a wait failure. When every patch succeeded, the
\* deadline expired before convergence and rollback has run to completion,
\* every object that existed is reverted and every created object is deleted.
C3_WaitFailureRestores ==
    (/\ pc = "done" /\ trigger = "ErrWait" /\ outcome = "rolledBack"
     /\ patched = 1..Len(plan)
     /\ waitErr # <<>> /\ waitErr[1].kind = "deadline") => Restored

\* C4: backup fidelity. Each rollback step that restores an item which
\* existed leaves the live object equal to the pre-run object in every field
\* a backup keeps, with a resourceVersion greater than before the run.
C4_BackupFidelity ==
    [][(/\ pc = "rollback" /\ idx' = idx + 1
        /\ plan[rollbackLog'[Len(rollbackLog')]].existed)
       => LET n == plan[rollbackLog'[Len(rollbackLog')]].obj.name IN
          /\ n \in DOMAIN cluster' /\ n \in DOMAIN pre
          /\ Observable(cluster'[n]) = Observable(pre[n])
          /\ cluster'[n].resourceVersion > pre[n].resourceVersion]_vars

\* C4 witness: an item that existed was patched and then restored by rollback
C4_Witness ==
    /\ pc \in {"rollback", "done"} /\ trigger # "none"
    /\ \E j \in patched :
         /\ plan[j].existed /\ idx > j
         /\ Exists(plan[j].obj.name)
         /\ Observable(cluster[plan[j].obj.name]) # Observable(plan[j].obj)
         /\ cluster[plan[j].obj.name].resourceVersion > pre[plan[j].obj.name].resourceVersion + 1

\* C5: ordering. Apply, wait-target enumeration and rollback all visit the
\* plan items in plan order: the k-th patch, the k-th wait target and the
\* k-th rollback step are those of plan item k.
C5_SameOrder ==
    /\ \A k \in DOMAIN applyLog : applyLog[k] = k
    /\ \A k \in DOMAIN rollbackLog : rollbackLog[k] = k
    /\ \A k \in DOMAIN resources : resources[k] = plan[k].obj.name

\* C5 witness: two different items were patched, tracked and rolled back
C5_Witness ==
    /\ Len(applyLog) >= 2 /\ Len(rollbackLog) >= 2 /\ Len(resources) >= 2
    /\ plan[1].obj.name # plan[2].obj.name

\* C6 as claimed: whenever the success marker has been printed, the last
\* recorded status of every tracked identity is Current.
C6_SuccessAllCurrent ==
    ("success" \in Range(out)) => \A n \in DOMAIN collected : collected[n] = "Current"

\* C6 amended: a run with tracked resources reports success only after the
\* observer has, on one notification, seen every tracked identity Current.
C6_SuccessAfterConvergence ==
    (outcome = "success" /\ resources # <<>>)
        => /\ cancelSnap # <<>>
           /\ \A n \in Range(resources) : cancelSnap[1].statuses[n] = "Current"

\* C6 witness: success, although an event recorded after the cancellation
\* left a tracked identity not Current
C6_Witness ==
    /\ outcome = "success" /\ cancelSnap # <<>>
    /\ \E n \in Range(resources) : collected[n] # "Current"

\* the collector has recorded every tracked resource Current and has
\* notified the observer
ConvergenceObserved ==
    /\ pc = "wait" /\ colPc = "recv"
    /\ \A n \in DOMAIN collected : collected[n] = "Current"

C10_ReturnsTriggeringError ==
    (pc = "done" /\ trigger \in {"ErrPatch", "ErrMarshal"}) => retErr = trigger

\* C11: every error of the apply stage or of the wait stage starts rollback
\* before it is surfaced: a step that leaves these stages either reports
\* success or enters rollback, and no run that issued a patch ends in failure
\* without the rollback marker and a first rollback step.
C11_RollbackBeforeSurfaced ==
    /\ []((pc = "done" /\ outcome # "success" /\ (applyLog # <<>> \/ patched # {}))
            => (/\ trigger # "none"
                /\ "rollback ..." \in Range(out)
                /\ rollbackLog # <<>>))
    /\ [][(pc \in {"apply", "wait"} /\ pc' \notin {"apply", "wait"})
            => \/ (pc' = "rollback" /\ trigger' # "none")
               \/ (pc' = "done" /\ outcome' = "success")]_vars

\* C11 witness: a run patched an item, a later patch failed, and the run
\* ended after rollback had been started
C11_Witness ==
    /\ pc = "done" /\ patched # {} /\ trigger = "ErrPatch"
    /\ rollbackLog # <<>>

\* C12: planning-stage errors (reading, kind resolution after the retry,
\* backup serialization) end the run with no patch, update or delete issued,
\* the cluster untouched and rollback not started.
C12_PlanningErrorsBeforeMutation ==
    /\ []((outcome \in {"fatal", "planError"})
            => /\ pc = "done"
               /\ applyLog = <<>> /\ patched = {} /\ rollbackLog = <<>>
               /\ cluster = pre
               /\ trigger = "none"
               /\ "rollback ..." \notin Range(out))
    /\ [][(pc \in {"read", "plan"})
            => /\ cluster' = cluster
               /\ trigger' = "none" /\ out' = out
               /\ \/ pc' \in {"read", "plan", "apply"}
                  \/ (pc' = "done" /\ outcome' \in {"fatal", "planError"})]_vars

\* C12 witness: planning failed on a later item, after an earlier item of an
\* existing object had been planned
C12_Witness ==
    /\ pc = "done" /\ outcome \in {"fatal", "planError"}
    /\ plan # <<>> /\ plan[1].existed

\* C13: rollback never turns into success: once rollback has started the
\* success marker is never printed, and the run ends with a failure outcome
\* (exit status 1, no nil return), also when every rollback step succeeded.
C13_RollbackNeverSuccess ==
    (trigger # "none" \/ "rollback ..." \in Range(out))
        => /\ "success" \notin Range(out)
           /\ outcome # "success"
           /\ retErr # "nil"
           /\ (pc = "done" => (/\ outcome \in {"rolledBack", "rollbackError"}
                               /\ ExitCode(outcome) = 1))

\* C13 witness: every rollback step succeeded and the run has ended
C13_Witness ==
    /\ pc = "done" /\ outcome = "rolledBack"
    /\ Len(rollbackLog) = Len(plan) /\ plan # <<>>

\* C14: a rejected restore or delete call of rollback is fatal: the run ends
\* at once with that call's error returned, "rollback complete" is not
\* printed, and no rollback call is ever issued twice for a plan index.
C14_RollbackFailureFatal ==
    /\ \A j, k \in DOMAIN rollbackLog : rollbackLog[j] = rollbackLog[k] => j = k
    /\ (outcome = "rollbackError"
          => /\ pc = "done"
             /\ retErr \in {"ErrUpdate", "ErrDelete"}
             /\ retErr = (IF plan[idx].existed THEN "ErrUpdate" ELSE "ErrDelete")
             /\ rollbackLog[Len(rollbackLog)] = idx
             /\ "rollback complete" \notin Range(out)
             /\ ExitCode(outcome) = 1)

\* C14 witness: the second rollback call was rejected after the first
\* succeeded
C14_Witness ==
    /\ pc = "done" /\ outcome = "rollbackError"
    /\ Len(rollbackLog) = 2

\* C15: a failed run whose rollback completed returns an error to the
\* caller instead of ending the process.
C15_CompletedRollbackReturnsError ==
    (pc = "done" /\ "rollback complete" \in Range(out))
        => (outcome # "rolledBack" /\ retErr \notin {"none", "nil"})

OnlyEmptyDocuments ==
    \A k \in DOMAIN data : ~data[k].malformed /\ data[k].obj = EmptyObject

\* C17: when the input holds only empty documents, the plan has no item, no
\* patch, update or delete is issued, waitStatus returns at once with "no
\* trackable resources" without starting the poller or the collector, and
\* the run ends in success.
C17_EmptyPlan ==
    (OnlyEmptyDocuments /\ pc # "read" /\ retErr # "ErrReadFile")
        => /\ allDocs = <<>> /\ plan = <<>> /\ resources = <<>>
           /\ applyLog = <<>> /\ patched = {} /\ rollbackLog = <<>>
           /\ cluster = pre
           /\ pollerPc = "idle" /\ colPc = "idle"
           /\ trigger = "none"
           /\ outcome \in {"running", "success"}
           /\ (pc = "done" => (/\ outcome = "success" /\ retErr = "nil"
                               /\ out = <<"no trackable resources", "success">>))

\* C17 witness: a run over two empty documents has ended
C17_Witness ==
    /\ Len(data) = 2 /\ OnlyEmptyDocuments
    /\ pc = "done" /\ outcome = "success"

\* a second run during which no controller has changed a resource
NoDrift == runNo = 2 /\ reconciles = 0

\* C18: idempotence. In a second run of the same files after a successful,
\* converged first run, with no drift: until a failure of the environment
\* starts rollback the cluster stays as the first run left it; the wait
\* returns; and unless the environment fails (deadline, rejected or
\* unserializable patch, poller error, planning error) the run succeeds
\* without rollback.
C18_Idempotent ==
    /\ []((NoDrift /\ trigger = "none")
            => /\ DOMAIN cluster = DOMAIN pre
               /\ \A n \in DOMAIN pre :
                    /\ Observable(cluster[n]) = Observable(pre[n])
                    /\ cluster[n].status = pre[n].status)
    /\ []((/\ NoDrift /\ pc = "done" /\ ~deadline /\ ~collErr
           /\ trigger \notin {"ErrPatch", "ErrMarshal"}
           /\ outcome \notin {"fatal", "planError"})
            => (outcome = "success" /\ trigger = "none" /\ rollbackLog = <<>>))
    /\ ((NoDrift /\ pc = "wait") ~> (pc # "wait" \/ ~NoDrift))

\* C18 witness: the second run patched both items again and succeeded
C18_Witness ==
    /\ NoDrift /\ pc = "done" /\ outcome = "success"
    /\ Cardinality(patched) = 2 /\ ~deadline

\* the manifest plan item k was built from, as it was decoded
Decoded(k) == readManifests(data).docs[k]

\* C19: namespace resolution. For a namespaced kind an explicit namespace of
\* the manifest is kept, a manifest without one gets the caller-supplied
\* namespace when one is given and "default" otherwise; the result is never
\* empty and is written back onto the desired object. Nothing else changes.
C19_NamespaceResolution ==
    \A k \in DOMAIN plan :
        LET u0 == Decoded(k)
            u == plan[k].obj
        IN /\ allDocs[k] = u
           /\ u = [u0 EXCEPT !.namespace = u.namespace]
           /\ (Scope(u0.kind) = "namespace")
                => /\ u.namespace # ""
                   /\ (u0.namespace # "") => (u.namespace = u0.namespace)
                   /\ (u0.namespace = "" /\ nsFlag[1] # "") => (u.namespace = nsFlag[1])
                   /\ (u0.namespace = "" /\ nsFlag[1] = "") => (u.namespace = "default")
           /\ (Scope(u0.kind) # "namespace") => (u.namespace = u0.namespace)

\* C19 witness: with --namespace given, a plan of a manifest that names its
\* own namespace and of one that names none
C19_Witness ==
    /\ Len(plan) = 2 /\ nsFlag = <<"team-b">>
    /\ Scope(plan[1].obj.kind) = "namespace" /\ Scope(plan[2].obj.kind) = "namespace"
    /\ Decoded(1).namespace = "team-a" /\ plan[1].obj.namespace = "team-a"
    /\ Decoded(2).namespace = "" /\ plan[2].obj.namespace = "team-b"

\* the run got as far as the apply stage
ReachedApply == pc = "done" /\ outcome \notin {"fatal", "planError"}

\* C20 as claimed: a run that reached the apply stage has either printed the
\* success marker, or the rollback marker followed by "rollback complete",
\* and then ended with a non-zero exit status.
C20_SuccessOrRollbackComplete ==
    ReachedApply
        => \/ "success" \in Range(out)
           \/ (/\ out = <<"rollback ...", "rollback complete">>
               /\ ExitCode(outcome) # 0)

\* C20 amended: a run that reached the apply stage has either printed the
\* success marker and no rollback line, or the rollback marker and then
\* either "rollback complete" before exit status 1, or, when a rollback call
\* was rejected, nothing more before that call's error is returned.
C20_MarkerProtocol ==
    ReachedApply
        => \/ (/\ outcome = "success" /\ ExitCode(outcome) = 0
               /\ out[Len(out)] = "success"
               /\ "rollback ..." \notin Range(out))
           \/ (/\ outcome = "rolledBack" /\ ExitCode(outcome) = 1
               /\ out = <<"rollback ...", "rollback complete">>)
           \/ (/\ outcome = "rollbackError" /\ ExitCode(outcome) = 1
               /\ out = <<"rollback ...">>
               /\ retErr \in {"ErrUpdate", "ErrDelete"})

\* C20 witness: a failed run ended after the rollback marker alone
C20_Witness ==
    /\ ReachedApply /\ outcome = "rollbackError"
    /\ out = <<"rollback ...">>

\* the names of the objects the input manifests name
InputNames == {readManifests(data).docs[k].name : k \in DOMAIN readManifests(data).docs}

\* C21: a run writes only to the identities of its plan. Every Patch, Update
\* and Delete call names a plan item, and an object that no manifest names
\* is, at every moment of the run and also after a failed run, exactly as it
\* was before the run (present or absent, every field).
C21_WritesOnlyPlanItems ==
    /\ \A k \in DOMAIN writes :
          /\ writes[k].verb \in {"patch", "update", "delete"}
          /\ \E i \in DOMAIN plan : plan[i].obj.name = writes[k].name
    /\ \A n \in Names \ InputNames :
          /\ (n \in DOMAIN cluster) <=> (n \in DOMAIN pre)
          /\ (n \in DOMAIN pre) => (cluster[n] = pre[n])

\* C21 witness: a failed run created and deleted a, the only plan item, while
\* b, applied earlier and absent from this plan, is in the cluster
C21_Witness ==
    /\ pc = "done" /\ outcome = "rolledBack"
    /\ InputNames = {"a"} /\ "b" \in DOMAIN pre
    /\ 1 \in patched /\ ~plan[1].existed
    /\ \E k \in DOMAIN writes : writes[k].verb = "delete"

\* C22: readManifests drops the empty documents and returns the others in
\* input order (as many as there are non-empty documents, none for an empty
\* input); a malformed document anywhere fails the whole read with an error
\* and no partial result, and the run stops there.
C22_ReadManifests ==
    LET r == readManifests(data)
        bad == \E k \in DOMAIN data : data[k].malformed
        kept == SelectSeq(data, LAMBDA x : x.obj # EmptyObject)
    IN /\ r.err <=> bad
       /\ bad => (r.docs = <<>>)
       /\ ~bad => /\ Len(r.docs) = Len(kept)
                  /\ \A k \in DOMAIN kept : r.docs[k] = kept[k].obj
       /\ (data = <<>>) => (~r.err /\ Len(r.docs) = 0)
       /\ (pc # "read" /\ retErr # "ErrReadFile")
            => IF bad
               THEN /\ pc = "done" /\ outcome = "planError" /\ retErr = "ErrDecode"
                    /\ allDocs = <<>> /\ plan = <<>>
               ELSE /\ Len(allDocs) = Len(kept)
                    /\ \A k \in DOMAIN kept : allDocs[k].name = kept[k].obj.name

\* C22 witness: an empty document followed by a manifest was read into one
\* decoded object
C22_Witness ==
    /\ Len(data) = 2 /\ ~data[1].malformed /\ data[1].obj = EmptyObject
    /\ ~data[2].malformed /\ data[2].obj # EmptyObject
    /\ pc = "plan" /\ allDocs = <<data[2].obj>>

\* C23: stripMeta removes exactly the status block and, of the metadata,
\* managedFields, resourceVersion, uid and creationTimestamp: the backup of
\* every item that existed has none of the five, and has every other field
\* (name, kind, namespace, image, label) of the live object it was read from.
C23_StripMetaExact ==
    \A k \in DOMAIN plan :
        plan[k].existed =>
            LET b == plan[k].backup[1]
                live == pre[plan[k].obj.name]
            IN /\ b.status = Absent /\ b.managedFields = Absent
               /\ b.resourceVersion = 0 /\ b.uid = 0 /\ b.creationTimestamp = 0
               /\ b.name = live.name /\ b.kind = live.kind
               /\ b.namespace = live.namespace
               /\ b.image = live.image /\ b.label = live.label
               /\ DOMAIN b = DOMAIN live

\* C23 witness: the backup of a live object that carried a status, managed
\* fields, a resourceVersion, a uid and a creationTimestamp
C23_Witness ==
    /\ plan # <<>> /\ plan[1].existed
    /\ LET live == pre[plan[1].obj.name] IN
         /\ live.status = "Current" /\ live.managedFields = "kubectl"
         /\ live.resourceVersion = 1 /\ live.uid = 1 /\ live.creationTimestamp = 1
         /\ plan[1].backup[1].name = live.name

\* C24: once the observer has seen every tracked resource Current and has
\* cancelled the child context, waitStatus returns no error and the run ends
\* in success with no rollback write, wherever the expiry of the deadline
\* falls after that. Stated for the cancellations made before the deadline
\* and the runs without a poller error, which the claim covers a fortiori.
C24_ConvergedRunSucceeds ==
    (cancelSnap # <<>> /\ ~cancelSnap[1].ctxErr /\ ~collErr /\ pc # "wait")
        => /\ waitErr = <<>>
           /\ trigger = "none" /\ rollbackLog = <<>>
           /\ \A k \in DOMAIN writes : writes[k].verb = "patch"
           /\ (pc = "done" => outcome = "success")

\* the number of mapper.Reset() calls among the calls made for one document
Resets(calls) == Cardinality({i \in DOMAIN calls : calls[i] = "Reset"})

\* the number of RESTMapping calls among the calls made for one document
Lookups(calls) == Cardinality({i \in DOMAIN calls : calls[i] = "RESTMapping"})

\* C25: resolver retry. A lookup that succeeds is never followed by a reset
\* or a second lookup; a lookup that fails is followed by exactly one reset
\* and exactly one more lookup. If that one succeeds the document is planned
\* like any other; if it fails the run ends there, with no write issued, the
\* cluster untouched and rollback not started.
C25_ResolverRetry ==
    \A k \in DOMAIN mapLog :
        LET e == mapLog[k] IN
        /\ e.calls[1] = "RESTMapping"
        /\ e.answers[1] => (Resets(e.calls) = 0 /\ Lookups(e.calls) = 1)
        /\ ~e.answers[1] => /\ Resets(e.calls) = 1 /\ Lookups(e.calls) = 2
                            /\ e.calls[2] = "Reset"
        /\ (e.answers[1] \/ e.answers[2])
              => \/ k <= Len(plan)
                 \/ (k = Len(plan) + 1 /\ outcome = "planError")
        /\ (~e.answers[1] /\ ~e.answers[2])
              => /\ k = Len(mapLog) /\ k = Len(plan) + 1
                 /\ pc = "done" /\ outcome = "fatal"
                 /\ writes = <<>> /\ cluster = pre
                 /\ trigger = "none" /\ rollbackLog = <<>>
                 /\ "rollback ..." \notin Range(out)

\* C25 witness: the first document resolved at once, the second after a
\* reset, and both were planned
C25_Witness ==
    /\ Len(plan) = 2 /\ pc = "apply"
    /\ mapLog[1].calls = <<"RESTMapping">>
    /\ mapLog[2].calls = <<"RESTMapping", "Reset", "RESTMapping">>

\* C26: existence detection. A plan item has Existed and a backup exactly
\* when its planning read returned the live object, and the backup is that
\* object stripped; after a read that failed, not found or any other error,
\* the item has neither and planning went on to append it. No item has a
\* backup without Existed or Existed without a backup.
C26_ExistenceDetection ==
    /\ Len(getLog) = Len(plan)
    /\ \A k \in DOMAIN plan :
          /\ plan[k].existed <=> (getLog[k] = "found")
          /\ (plan[k].backup # <<>>) <=> plan[k].existed
          /\ plan[k].existed
                => /\ Len(plan[k].backup) = 1
                   /\ plan[k].backup[1].name = plan[k].obj.name
                   /\ Observable(plan[k].backup[1]) = Observable(pre[plan[k].obj.name])
                   /\ plan[k].rv = pre[plan[k].obj.name].resourceVersion

\* C26 witness: the read of an existing object failed with a lookup error,
\* planning went on, and the read of the next object returned it
C26_Witness ==
    /\ pc = "apply" /\ Len(plan) = 2
    /\ getLog = <<"error", "found">>
    /\ ~plan[1].existed /\ plan[2].existed

\* C27: the plan has the length and the order of the list of desired
\* objects: while it is built, item i is desired object i; when planning is
\* over, without error, there is one item per decoded manifest, item i
\* carrying manifest i (with its namespace resolved).
C27_PlanLengthAndOrder ==
    /\ Len(plan) <= Len(allDocs)
    /\ \A i \in DOMAIN plan :
          /\ plan[i].obj = allDocs[i]
          /\ plan[i].obj = [Decoded(i) EXCEPT !.namespace = plan[i].obj.namespace]
    /\ (pc = "plan") => (Len(plan) = idx - 1)
    /\ (pc \notin {"read", "plan"} /\ outcome \notin {"fatal", "planError"})
          => /\ Len(plan) = Len(allDocs)
             /\ Len(plan) = Len(readManifests(data).docs)

\* C27 witness: a plan of two items built from two manifests given in an
\* order that is not the order of their names
C27_Witness ==
    /\ pc = "apply" /\ Len(plan) = 2 /\ applyLog = <<>>
    /\ Decoded(1).name = "b" /\ Decoded(2).name = "a"
    /\ plan[1].obj.name = "b" /\ plan[2].obj.name = "a"

\* C28: what rollback does for an item depends on its Existed flag alone.
\* The k-th rollback call is, for an item with Existed, an Update whose body
\* is the item's deserialized backup, and otherwise a Delete by the item's
\* name, whether or not the item had been patched; and an Update that
\* succeeds overwrites the live object with the backup, fields the backup
\* lacks included, where a merge would have kept them.
C28_RollbackByExisted ==
    /\ [](\A k \in DOMAIN rollbackLog :
            LET it == plan[rollbackLog[k]]
                w == writes[Len(applyLog) + k]
            IN /\ w.name = it.obj.name
               /\ it.existed => (w.verb = "update" /\ w.body = it.backup[1])
               /\ ~it.existed => (w.verb = "delete"))
    /\ [][(pc = "rollback" /\ idx' = idx + 1)
            => LET it == plan[idx]
                   n == it.obj.name
               IN IF it.existed
                  THEN /\ n \in DOMAIN cluster'
                       /\ cluster'[n].image = it.backup[1].image
                       /\ cluster'[n].label = it.backup[1].label
                  ELSE n \notin DOMAIN cluster']_vars

\* C28 witness: the first patch failed, and rollback has overwritten the
\* unpatched first item, which existed, and deleted the second, which had
\* never been created
C28_Witness ==
    /\ trigger = "ErrPatch" /\ patched = {} /\ Len(plan) = 2
    /\ Len(rollbackLog) = 2
    /\ plan[1].existed /\ ~plan[2].existed
    /\ writes[2].verb = "update" /\ writes[3].verb = "delete"

\* C29: progress line. On every notification after which some tracked
\* resource is not Current, the line printed names a tracked resource that
\* is not Current, with its recorded status, and no not-yet-Current resource
\* has a smaller name; on the notification at which all are Current nothing
\* is printed.
C29_RepresentativeSmallestName ==
    [][(/\ pc = "wait" /\ colPc = "proc" /\ colPc' # "proc"
        /\ cur[1].type = "ResourceUpdateEvent")
       => IF \A n \in DOMAIN collected' : collected'[n] = "Current"
          THEN lastWatch' = lastWatch
          ELSE /\ Len(lastWatch') = 1
               /\ lastWatch'[1].name \in DOMAIN collected'
               /\ collected'[lastWatch'[1].name] # "Current"
               /\ lastWatch'[1].status = collected'[lastWatch'[1].name]
               /\ \A m \in DOMAIN collected' :
                     (collected'[m] # "Current")
                        => NameRank(lastWatch'[1].name) <= NameRank(m)]_vars

\* C29 witness: with a Current and b in progress, the line printed is b's
C29_Witness ==
    /\ pc = "wait" /\ colPc = "recv" /\ ~cancelled
    /\ DOMAIN collected = {"a", "b"}
    /\ collected["a"] = "Current" /\ collected["b"] = "InProgress"
    /\ lastWatch = <<[name |-> "b", status |-> "InProgress"]>>

\* C30: progress line determinism. For the same tracked resources and the
\* same recorded statuses, every call of the observer prints the same line,
\* also when several not-yet-Current resources have the same name: a call
\* that prints, after a call that printed for these statuses, prints the
\* line printed before.
C30_SameLineEveryExecution ==
    [][(pc = "observe" /\ lastWatch # <<>> /\ collected' = collected)
          => lastWatch' = lastWatch]_vars

\* C31: wait-stage handoff. Events enter the channel only from the running
\* poll loop; the recorded statuses and the collector's error change only
\* when the collector goroutine handles an event it received (or when the
\* collector is built, before the goroutine exists); waitStatus reads them
\* and returns only after done is signalled; and once done is signalled the
\* collector writes nothing more.
C31_SingleConsumerHandoff ==
    /\ [][(chan' # chan /\ chan' # <<>>) => (pc = "wait" /\ pollerPc = "run")]_vars
    /\ [][(collected' # collected \/ collErr' # collErr)
            => \/ (pc = "wait" /\ colPc = "proc" /\ cur # <<>>)
               \/ (pc = "apply" /\ pc' = "wait" /\ colPc = "idle")]_vars
    /\ [][(waitErr' # waitErr \/ (pc = "wait" /\ pc' # "wait")) => colPc = "done"]_vars
    /\ [][(colPc = "done")
            => (/\ colPc' = "done" /\ cur' = cur
                /\ collected' = collected /\ collErr' = collErr)]_vars

\* C31 witness: after done was signalled waitStatus has read the statuses
\* the collector recorded and listed a resource as not ready
C31_Witness ==
    /\ pc = "rollback" /\ colPc = "done" /\ ~collErr
    /\ waitErr # <<>> /\ Len(waitErr[1].facts) = 1
    /\ waitErr[1].facts[1].status = collected[waitErr[1].facts[1].id]
    /\ waitErr[1].facts[1].status = "InProgress"

\* C32: cancellation cascades downward. Once the poller's context is done,
\* by the observer's cancel or by the expiry of the run's deadline, the poll
\* loop reads no further status and stops, a stopped poll loop stays stopped
\* and emits nothing, and the blocked waitStatus returns.
C32_CancellationCascades ==
    /\ [][(pc = "wait" /\ (cancelled \/ deadline))
            => (prev' = prev \/ pollerPc' = "closed")]_vars
    /\ [][(pc = "wait" /\ pollerPc = "closed")
            => (pollerPc' = "closed" /\ (chan' = chan \/ chan' = <<>>))]_vars
    /\ ((pc = "wait" /\ (cancelled \/ deadline)) ~> (pollerPc = "closed"))
    /\ ((pc = "wait" /\ (cancelled \/ deadline)) ~> (pc # "wait"))

\* C32 witness: the deadline expired with no cancellation by the observer,
\* the poll loop stopped and waitStatus returned
C32_Witness ==
    /\ deadline /\ ~cancelled /\ ~collErr
    /\ pollerPc = "closed" /\ colPc = "done"
    /\ pc = "rollback" /\ trigger = "ErrWait" /\ rollbackLog = <<>>

\* C33: termination. When every call returns and the deadline elapses, every
\* run ends, with exactly one outcome, set once and never changed: success,
\* a planning error, failure after a completed rollback, or a rollback
\* error; and a wait that has started ends, also when a resource never
\* becomes Current.
C33_Termination ==
    /\ <>(pc = "done")
    /\ ((pc = "wait") ~> (pc # "wait"))
    /\ []((pc = "done") <=> (outcome # "running"))
    /\ [](outcome \in {"running", "success", "planError", "fatal",
                        "rolledBack", "rollbackError"})
    /\ [][(outcome # "running") => (outcome' = outcome /\ pc' = "done")]_vars

\* C33 witness: a resource never became Current, the deadline ended the
\* wait and the run ended after a completed rollback
C33_Witness ==
    /\ pc = "done" /\ outcome = "rolledBack" /\ trigger = "ErrWait"
    /\ deadline /\ ~cancelled /\ ~collErr
    /\ \E n \in Range(resources) : collected[n] = "InProgress"

\* C34: planning is complete before the first mutation. While the run reads
\* and plans, no write has been issued and the cluster is as before the run;
\* a write is issued only when every document has its plan item; every
\* backup, also of two items that name the same object, is the pre-run
\* object; and writes are issued one per step, the patches in plan order.
C34_PlanBeforeFirstWrite ==
    /\ []((pc \in {"read", "plan"}) => (writes = <<>> /\ cluster = pre))
    /\ []((writes # <<>>)
            => (Len(plan) = Len(allDocs) /\ Len(getLog) = Len(plan)))
    /\ [](\A j, k \in DOMAIN plan :
            /\ plan[j].existed
                  => /\ Observable(plan[j].backup[1]) = Observable(pre[plan[j].obj.name])
                     /\ plan[j].rv = pre[plan[j].obj.name].resourceVersion
            /\ (plan[j].obj.name = plan[k].obj.name /\ plan[j].existed /\ plan[k].existed)
                  => plan[j].backup = plan[k].backup)
    /\ [][/\ Len(writes') <= Len(writes) + 1
           /\ (Len(applyLog') > Len(applyLog))
                 => (/\ applyLog' = Append(applyLog, Len(applyLog) + 1)
                     /\ Len(writes') = Len(writes) + 1
                     /\ writes'[Len(writes')].verb = "patch")]_vars

\* C34 witness: two plan items name the same existing object; both were
\* patched, and both hold the same backup, taken before the first patch
C34_Witness ==
    /\ Len(plan) = 2 /\ plan[1].obj.name = plan[2].obj.name
    /\ plan[1].existed /\ plan[2].existed
    /\ patched = {1, 2} /\ plan[1].backup = plan[2].backup
    /\ cluster[plan[1].obj.name].resourceVersion = plan[2].rv + 2

\* C35: rollback stops at its first failing step. When the call for plan
\* item j is rejected the run ends at once with that call's error: rollback
\* has issued one call for each of the items 1..j, in order, the calls for
\* 1..j-1 having succeeded, and none for any item after j, and nothing is
\* written afterwards.
C35_RollbackStopsAtFirstFailure ==
    /\ []((outcome = "rollbackError")
            => /\ pc = "done" /\ idx <= Len(plan)
               /\ rollbackLog = [k \in 1..idx |-> k]
               /\ Len(writes) = Len(applyLog) + idx
               /\ \A k \in 1..idx :
                     /\ writes[Len(applyLog) + k].verb \in {"update", "delete"}
                     /\ writes[Len(applyLog) + k].name = plan[k].obj.name
               /\ retErr = (IF writes[Len(writes)].verb = "update"
                            THEN "ErrUpdate" ELSE "ErrDelete"))
    /\ [][(pc = "rollback" /\ Len(rollbackLog') > Len(rollbackLog))
            => /\ Len(rollbackLog) = idx - 1
               /\ \/ (idx' = idx + 1 /\ pc' = "rollback" /\ outcome' = "running")
                  \/ (idx' = idx /\ pc' = "done" /\ outcome' = "rollbackError"
                      /\ cluster' = cluster)]_vars
    /\ [][(outcome = "rollbackError")
            => (writes' = writes /\ cluster' = cluster)]_vars

\* C35 witness: the call for the first of two plan items was rejected and
\* the second item was never visited
C35_Witness ==
    /\ pc = "done" /\ outcome = "rollbackError"
    /\ Len(plan) = 2 /\ idx = 1 /\ rollbackLog = <<1>>
    /\ plan[1].obj.name # plan[2].obj.name
    /\ patched = {1, 2}

\* C36: rollback is not subject to the run's deadline. Every Update and
\* Delete is issued under a context of its own, never the timeout context;
\* with the deadline expired a rollback call on an object that is there can
\* still succeed; the expiry of the deadline during rollback changes nothing
\* of the rollback; and a rollback that completes has visited every plan
\* item once, in order, deadline or not.
C36_RollbackIgnoresDeadline ==
    /\ [](\A k \in DOMAIN writes :
            (writes[k].verb \in {"update", "delete"}) => (writes[k].ctx = "todo"))
    /\ []((/\ pc = "rollback" /\ idx <= Len(plan) /\ deadline
           /\ Exists(plan[idx].obj.name))
            => ENABLED (RollbackStep /\ idx' = idx + 1))
    /\ [][(pc = "rollback" /\ deadline' # deadline)
            => (/\ pc' = "rollback" /\ idx' = idx
                /\ rollbackLog' = rollbackLog /\ cluster' = cluster)]_vars
    /\ []((outcome = "rolledBack")
            => rollbackLog = [k \in 1..Len(plan) |-> k])

\* C36 witness: the deadline expired during the wait, and the rollback it
\* started restored the first item and deleted the second
C36_Witness ==
    /\ pc = "done" /\ outcome = "rolledBack" /\ deadline
    /\ waitErr # <<>> /\ waitErr[1].kind = "deadline"
    /\ Len(plan) = 2 /\ plan[1].existed /\ ~plan[2].existed
    /\ writes[3].verb = "update" /\ writes[4].verb = "delete"

\* C37: one deadline governs the apply stage and the wait stage. The
\* deadline, once expired, stays expired; every patch is issued under the
\* timeout context, so a patch attempted after the expiry fails, changes
\* nothing and starts rollback from the first plan item without the wait
\* stage being entered, a rollback that visits the entire plan when it
\* completes; and a wait that meets the expired deadline reads no further
\* status and ends with the deadline error.
C37_SingleDeadline ==
    /\ [][deadline => deadline']_vars
    /\ [](\A k \in DOMAIN writes :
            (writes[k].verb = "patch") => (writes[k].ctx = "run"))
    /\ [][(pc = "apply" /\ deadline /\ Len(applyLog') > Len(applyLog))
            => (/\ pc' = "rollback" /\ idx' = 1 /\ trigger' = "ErrPatch"
                /\ cluster' = cluster /\ patched' = patched
                /\ resources' = <<>>)]_vars
    /\ []((trigger = "ErrPatch" /\ outcome = "rolledBack")
            => rollbackLog = [k \in 1..Len(plan) |-> k])
    /\ [][(pc = "wait" /\ deadline)
            => (prev' = prev \/ pollerPc' = "closed")]_vars
    /\ [][(pc = "wait" /\ pc' # "wait" /\ deadline /\ ~collErr)
            => (pc' = "rollback" /\ waitErr'[1].kind = "deadline")]_vars

\* C37 witness: the deadline expired after the first patch; the second
\* patch was attempted and failed, and rollback went over both items with
\* the wait stage never entered
C37_Witness ==
    /\ pc = "done" /\ outcome = "rolledBack" /\ deadline
    /\ trigger = "ErrPatch" /\ applyLog = <<1, 2>> /\ patched = {1}
    /\ rollbackLog = <<1, 2>> /\ resources = <<>>

\* the number of times rollback has printed its start marker
RollbackStarts == Cardinality({k \in DOMAIN out : out[k] = "rollback ..."})

\* C38: rollback is started at most once per run, by a failure of the apply
\* stage, in which case the wait stage is never entered, or else by a
\* failure of the wait stage after every patch succeeded; and once rollback
\* has started no patch and no status poll is issued any more: the run only
\* rolls back and ends.
C38_RollbackOnce ==
    /\ [](RollbackStarts <= 1)
    /\ []((trigger # "none") <=> (RollbackStarts = 1))
    /\ [](trigger \in {"none", "ErrPatch", "ErrMarshal", "ErrWait"})
    /\ []((trigger \in {"ErrPatch", "ErrMarshal"})
            => (resources = <<>> /\ pollerPc = "idle" /\ colPc = "idle"))
    /\ []((trigger = "ErrWait")
            => (/\ waitErr # <<>> /\ patched = 1..Len(plan)
                /\ pollerPc = "closed" /\ colPc = "done"))
    /\ [][(trigger # "none")
            => (/\ trigger' = trigger /\ pc' \in {"rollback", "done"}
                /\ applyLog' = applyLog /\ patched' = patched
                /\ prev' = prev /\ pollIdx' = pollIdx /\ chan' = chan
                /\ collected' = collected
                /\ (Len(writes') > Len(writes))
                      => writes'[Len(writes')].verb \in {"update", "delete"})]_vars

\* C38 witness: after one successful patch the second manifest could not be
\* serialized; rollback ran once, to completion, and no wait was started
C38_Witness ==
    /\ pc = "done" /\ outcome = "rolledBack" /\ trigger = "ErrMarshal"
    /\ patched = {1} /\ applyLog = <<1>> /\ resources = <<>>
    /\ RollbackStarts = 1 /\ Len(rollbackLog) = 2

====
